---- MODULE Spec2Model ----
(***************************************************************************)
(* ASCII chart rendering of kiyono/ccusage: drawLineGraph and              *)
(* createSmoothLineGraph (src/src/_ascii-graph.ts), createLineGraph        *)
(* (src/unnamed/part_000, imported as graphs/line.ts), createBarGraph      *)
(* (src/src/graphs/bar.ts) and the x-axis date labels of the daily command *)
(* (src/src/graphs/types.ts).                                              *)
(*                                                                         *)
(* Strings are sequences of one-glyph tokens.  The box-drawing glyphs are  *)
(* named tokens (HLINE is U+2500, VLINE U+2502, CROSS U+253C, TEE U+2524,  *)
(* DIAGUP U+2571, DIAGDOWN U+2572, POINT U+25CF, BLOCK U+2588, DOT U+00B7).*)
(* Numbers are integers and ratios of integers; Math.round, Math.floor and *)
(* Math.ceil are computed exactly on the ratio.                            *)
(***************************************************************************)
EXTENDS Integers, Sequences, FiniteSets, TLC

\* ------------------------------------------------------------ bounds
MaxLen == 3
MaxWidth == 6
MaxHeight == 3
MaxPoints == 30
MaxTerminal == 84
MaxBars == 4
MaxCoord == 3

\* The values a series is drawn from: a value at most -20, zero, a value
\* below one step, and a value above two steps.
Values == {-25, 0, 7, 45}
BarValues == {7, 45}

\* The options a caller passes beside width and height: no padding and the
\* renderer's default format; the two spaces and the padded currency format
\* of the daily command and the tests; a margin that does not start with a
\* space, with the default format.
Options == {[padding |-> <<>>, format |-> "default"],
            [padding |-> <<" ", " ">>, format |-> "padStart"],
            [padding |-> <<">", " ", " ">>, format |-> "default"]}

\* ------------------------------------------------------------ glyphs
HLINE == "HLINE"
VLINE == "VLINE"
DIAGDOWN == "DIAGDOWN"
DIAGUP == "DIAGUP"
CROSS == "CROSS"
TEE == "TEE"
POINT == "POINT"
BLOCK == "BLOCK"
DOT == "DOT"
SPACE == " "
NL == "\n"

\* ------------------------------------------------------------ numbers
Max2(a, b) == IF a >= b THEN a ELSE b
Min2(a, b) == IF a <= b THEN a ELSE b
Abs(a) == IF a < 0 THEN -a ELSE a

\* Math.floor(p / q), q # 0
FloorDiv(p, q) == IF q > 0 THEN p \div q ELSE (-p) \div (-q)

\* Math.ceil(p / q), q # 0
CeilDiv(p, q) == -FloorDiv(-p, q)

\* Math.round(p / q), q # 0: the nearest integer, a tie going up
Round(p, q) == IF q > 0 THEN (2 * p + q) \div (2 * q)
               ELSE (-(2 * p) - q) \div (-(2 * q))

\* Math.max(...data), Math.min(...data) of a non-empty series
RECURSIVE SeqMax(_)
SeqMax(s) == IF Len(s) = 1 THEN s[1] ELSE Max2(s[1], SeqMax(Tail(s)))

RECURSIVE SeqMin(_)
SeqMin(s) == IF Len(s) = 1 THEN s[1] ELSE Min2(s[1], SeqMin(Tail(s)))

\* ------------------------------------------------------------ strings
\* 'c'.repeat(n), also Array.from({length: n}, () => c)
RECURSIVE Repeat(_, _)
Repeat(c, n) == IF n <= 0 THEN <<>> ELSE Append(Repeat(c, n - 1), c)

\* s.padStart(n): spaces in front up to length n, s itself when it is longer
PadStart(s, n) == IF Len(s) >= n THEN s ELSE Repeat(SPACE, n - Len(s)) \o s

DigitChar(d) == <<"0", "1", "2", "3", "4", "5", "6", "7", "8", "9">>[d + 1]

\* The decimal digits of n >= 0
RECURSIVE Digits(_)
Digits(n) == IF n < 10 THEN <<DigitChar(n)>>
             ELSE Digits(n \div 10) \o <<DigitChar(n % 10)>>

\* Two decimal digits of 0 <= n < 100
PadZero2(n) == <<DigitChar(n \div 10), DigitChar(n % 10)>>

\* (p / q).toFixed(0), q # 0: the sign of a negative value, then the value
\* rounded to an integer, a tie going up
ToFixed0(p, q) ==
    LET neg == (p < 0 /\ q > 0) \/ (p > 0 /\ q < 0)
        n == (2 * Abs(p) + Abs(q)) \div (2 * Abs(q))
    IN  (IF neg THEN <<"-">> ELSE <<>>) \o Digits(n)

\* (p / q).toFixed(2), q # 0: the sign of a negative value, then the value
\* rounded to hundredths, a tie going up
ToFixed2(p, q) ==
    LET neg == (p < 0 /\ q > 0) \/ (p > 0 /\ q < 0)
        n == (200 * Abs(p) + Abs(q)) \div (2 * Abs(q))
    IN  (IF neg THEN <<"-">> ELSE <<>>)
        \o Digits(n \div 100) \o <<".">>
        \o <<DigitChar((n % 100) \div 10), DigitChar(n % 10)>>

\* parts.join(sep)
RECURSIVE Join(_, _)
Join(parts, sep) == IF Len(parts) = 0 THEN <<>>
                    ELSE IF Len(parts) = 1 THEN parts[1]
                    ELSE parts[1] \o <<sep>> \o Join(Tail(parts), sep)

\* str.split(sep): the pieces between the separators; the empty string has
\* the one piece ''
RECURSIVE SplitFrom(_, _, _, _)
SplitFrom(s, sep, i, cur) ==
    IF i > Len(s) THEN <<cur>>
    ELSE IF s[i] = sep THEN <<cur>> \o SplitFrom(s, sep, i + 1, <<>>)
    ELSE SplitFrom(s, sep, i + 1, Append(cur, s[i]))

Split(s, sep) == SplitFrom(s, sep, 1, <<>>)

\* str.includes(sub)
Includes(s, sub) ==
    \E k \in 0..(Len(s) - Len(sub)) :
        \A j \in 1..Len(sub) : s[k + j] = sub[j]

\* ------------------------------------------------------------ format
\* The width the callers' format pads to: (`$${x.toFixed(0)}`).padStart(4)
FormatPad == 4

\* `$${v.toFixed(0)}`, the default format of the stepped renderers, and the
\* callers' padded form of it
FormatCurrency(fmt, p, q) ==
    LET s == <<"$">> \o ToFixed0(p, q)
    IN  IF fmt = "padStart" THEN PadStart(s, FormatPad) ELSE s

\* v.toFixed(2), the default format of drawLineGraph, or the callers' format
FormatPlain(fmt, p, q) ==
    IF fmt = "padStart" THEN FormatCurrency(fmt, p, q) ELSE ToFixed2(p, q)

\* ------------------------------------------------------------ canvas
\* Array.from({length: height + 1}, () => Array.from({length: width}, () => ' '))
\* Row y of the code is canvas[y + 1], column x of a row is row[x + 1].
EmptyCanvas(w, h) == Repeat(Repeat(SPACE, w), h + 1)

InCanvas(w, h, x, y) == x >= 0 /\ x < w /\ y >= 0 /\ y <= h

Cell(c, x, y) == c[y + 1][x + 1]

\* canvas[y][x] = ch, behind the code's range guard.  The canvas is a tuple
\* of tuples at every step.
Put(c, w, h, x, y, ch) ==
    IF InCanvas(w, h, x, y) THEN [c EXCEPT ![y + 1][x + 1] = ch] ELSE c

\* ------------------------------------------------------------ scale
yAxisStep == 20

\* YAxisMax rounding down to the step below (Math.floor for Math.ceil)
YAxisMaxFloor(data) == FloorDiv(SeqMax(data), yAxisStep) * yAxisStep

\* The zero-based stepped domain: the data maximum rounded up to a multiple
\* of the step, one step when that is 0
YAxisMax(data) == CeilDiv(SeqMax(data), yAxisStep) * yAxisStep

YMax(data) == IF YAxisMax(data) = 0 THEN yAxisStep ELSE YAxisMax(data)

\* Math.round(height - ((value - yMin) / yRange) * height), yMin = 0
SteppedRow(value, yRange, h) == Round(h * yRange - value * h, yRange)

\* Math.round(i * xStep), xStep = (width - 1) / (data.length - 1)
ColOf(i, w, n) == Round(i * (w - 1), n - 1)

\* max - min || 1
TightRange(data) ==
    IF SeqMax(data) - SeqMin(data) = 0 THEN 1 ELSE SeqMax(data) - SeqMin(data)

\* TightRow without the inversion (Math.round(normalizedValue * height))
TightRowInverted(value, min, range, h) == Round((value - min) * h, range)

\* Math.round(height - ((data[i] - min) / range) * height)
TightRow(value, min, range, h) == Round(h * range - (value - min) * h, range)

\* ------------------------------------------------------------ rasterizer
\* BresenhamStep with the y step taken only in a turn without an x step
\* (else if in place of the second if)
BresenhamStepOneAxis(x, y, err, dx, dy, sx, sy) ==
    LET e2 == 2 * err
        stepX == e2 > -dy
        stepY == ~stepX /\ e2 < dx
    IN  [x |-> IF stepX THEN x + sx ELSE x,
         y |-> IF stepY THEN y + sy ELSE y,
         err |-> (IF stepX THEN err - dy ELSE err) + (IF stepY THEN dx ELSE 0)]

\* One turn of the Bresenham loop after the exit test: e2 = 2 * err, then
\* the x step and the y step
BresenhamStep(x, y, err, dx, dy, sx, sy) ==
    LET e2 == 2 * err
        stepX == e2 > -dy
        stepY == e2 < dx
    IN  [x |-> IF stepX THEN x + sx ELSE x,
         y |-> IF stepY THEN y + sy ELSE y,
         err |-> (IF stepX THEN err - dy ELSE err) + (IF stepY THEN dx ELSE 0)]

\* combineChars(char1, char2)
combineChars(char1, char2) ==
    LET horizontal == {HLINE, DIAGUP, DIAGDOWN}
        vertical == {VLINE, DIAGUP, DIAGDOWN}
    IN  IF char1 \in horizontal /\ char2 \in vertical THEN CROSS
        ELSE IF char1 \in vertical /\ char2 \in horizontal THEN CROSS
        ELSE char2

\* The glyph drawLine chooses for a segment
SegmentChar(dx, dy, sx, sy) ==
    IF dx = 0 THEN VLINE
    ELSE IF dy = 0 THEN HLINE
    ELSE IF (sx = 1 /\ sy = 1) \/ (sx = -1 /\ sy = -1) THEN DIAGDOWN
    ELSE DIAGUP

\* The while (true) loop of drawLine, from the cell (x, y) on
RECURSIVE drawLineLoop(_, _, _, _, _, _, _, _, _, _, _, _)
drawLineLoop(grid, w, h, x, y, err, x2, y2, dx, dy, sx, sy) ==
    LET ch == SegmentChar(dx, dy, sx, sy)
        g1 == IF InCanvas(w, h, x, y)
              THEN Put(grid, w, h, x, y,
                       IF Cell(grid, x, y) # SPACE
                       THEN combineChars(Cell(grid, x, y), ch) ELSE ch)
              ELSE grid
        s == BresenhamStep(x, y, err, dx, dy, sx, sy)
    IN  IF x = x2 /\ y = y2 THEN g1
        ELSE drawLineLoop(g1, w, h, s.x, s.y, s.err, x2, y2, dx, dy, sx, sy)

drawLine(grid, w, h, x1, y1, x2, y2) ==
    LET dx == Abs(x2 - x1)
        dy == Abs(y2 - y1)
        sx == IF x1 < x2 THEN 1 ELSE -1
        sy == IF y1 < y2 THEN 1 ELSE -1
    IN  drawLineLoop(grid, w, h, x1, y1, dx - dy, x2, y2, dx, dy, sx, sy)

\* The while (true) loop of createLineGraph and createSmoothLineGraph: a dot
\* in every cell of the segment that still holds a space
RECURSIVE dotLineLoop(_, _, _, _, _, _, _, _, _, _, _, _)
dotLineLoop(canvas, w, h, x, y, err, x2, y2, dx, dy, sx, sy) ==
    LET c1 == IF InCanvas(w, h, x, y) /\ Cell(canvas, x, y) = SPACE
              THEN Put(canvas, w, h, x, y, DOT) ELSE canvas
        s == BresenhamStep(x, y, err, dx, dy, sx, sy)
    IN  IF x = x2 /\ y = y2 THEN c1
        ELSE dotLineLoop(c1, w, h, s.x, s.y, s.err, x2, y2, dx, dy, sx, sy)

dotLine(canvas, w, h, x1, y1, x2, y2) ==
    LET dx == Abs(x2 - x1)
        dy == Abs(y2 - y1)
        sx == IF x1 < x2 THEN 1 ELSE -1
        sy == IF y1 < y2 THEN 1 ELSE -1
    IN  dotLineLoop(canvas, w, h, x1, y1, dx - dy, x2, y2, dx, dy, sx, sy)

\* ------------------------------------------------------------ y axis
\* yLabelsLoop with the first tick of a row kept (no yLabels.set on a row
\* that has a label)
RECURSIVE yLabelsLoopFirstWins(_, _, _, _, _)
yLabelsLoopFirstWins(value, yMax, h, fmt, map) ==
    IF value > yMax THEN map
    ELSE LET y == SteppedRow(value, yMax, h)
         IN  yLabelsLoopFirstWins(value + yAxisStep, yMax, h, fmt,
                 IF y >= 0 /\ y <= h
                 THEN map @@ (y :> FormatCurrency(fmt, value, 1))
                 ELSE map)

\* The for (value = yMin; value <= yMax; value += yAxisStep) loop filling
\* the Map yLabels: row -> label, a later tick replacing an earlier one
RECURSIVE yLabelsLoop(_, _, _, _, _)
yLabelsLoop(value, yMax, h, fmt, map) ==
    IF value > yMax THEN map
    ELSE LET y == SteppedRow(value, yMax, h)
         IN  yLabelsLoop(value + yAxisStep, yMax, h, fmt,
                 IF y >= 0 /\ y <= h
                 THEN (y :> FormatCurrency(fmt, value, 1)) @@ map
                 ELSE map)

yLabelsOf(yMax, h, fmt) == yLabelsLoop(0, yMax, h, fmt, <<>>)

\* The calls of format the tick loop makes
TickCalls(yMax, h) ==
    Cardinality({k \in 0..FloorDiv(yMax, yAxisStep) :
                    LET y == SteppedRow(k * yAxisStep, yMax, h)
                    IN  y >= 0 /\ y <= h})

\* Math.max(...allLabelValues.map(l => l.length)), 0 without labels
maxLabelWidthOf(map) ==
    IF DOMAIN map = {} THEN 0
    ELSE CHOOSE m \in {Len(map[y]) : y \in DOMAIN map} :
             \A y \in DOMAIN map : Len(map[y]) <= m

\* SteppedLine without the padding in front of the label
SteppedLineNoPadding(canvas, map, padding, h, y) ==
    LET label == PadStart(IF y \in DOMAIN map THEN map[y] ELSE <<>>,
                          maxLabelWidthOf(map))
        axisChar == IF y \in DOMAIN map THEN CROSS ELSE TEE
        finalAxisChar == IF y = h THEN CROSS ELSE axisChar
    IN  label \o <<SPACE, finalAxisChar>> \o canvas[y + 1]

\* One line of the stepped renderers: the row y of the canvas behind the
\* padding, the label, a space and the axis glyph
SteppedLine(canvas, map, padding, h, y) ==
    LET label == PadStart(IF y \in DOMAIN map THEN map[y] ELSE <<>>,
                          maxLabelWidthOf(map))
        axisChar == IF y \in DOMAIN map THEN CROSS ELSE TEE
        finalAxisChar == IF y = h THEN CROSS ELSE axisChar
    IN  padding \o label \o <<SPACE, finalAxisChar>> \o canvas[y + 1]

\* for (let y = 0; y <= height; y++) lines.push(line), from row y on
RECURSIVE SteppedLinesLoop(_, _, _, _, _, _, _)
SteppedLinesLoop(lines, canvas, map, padding, h, y, last) ==
    IF y > last THEN lines
    ELSE SteppedLinesLoop(Append(lines, SteppedLine(canvas, map, padding, h, y)),
                          canvas, map, padding, h, y + 1, last)

\* SteppedLines with the loop ending before the baseline row (y < height)
SteppedLinesNoBaseline(canvas, map, padding, h) ==
    SteppedLinesLoop(<<>>, canvas, map, padding, h, 0, h - 1)

\* The "Build each line" loop of the stepped renderers
SteppedLines(canvas, map, padding, h) ==
    SteppedLinesLoop(<<>>, canvas, map, padding, h, 0, h)

\* ------------------------------------------------------------ results
\* What a call leaves behind: the string returned, the grid built (<<>> when
\* none was), the calls of format made, yMax (0 when it was not computed), and
\* the assignments made to a row at an index that is none of its cells

\* EmptyResult with a blank line returned for the empty series
EmptyResultBlankLine == [out |-> <<SPACE>>, canvas |-> <<>>, calls |-> 0, yMax |-> 0, stray |-> {}]

\* if (data.length === 0) return ''
EmptyResult == [out |-> <<>>, canvas |-> <<>>, calls |-> 0, yMax |-> 0, stray |-> {}]

\* ------------------------------------------------------------ drawLineGraph
\* The second pass: drawLine between the consecutive plot points i, i + 1
RECURSIVE drawSegments(_, _, _, _, _)
drawSegments(grid, data, w, h, i) ==
    LET n == Len(data)
        min == SeqMin(data)
        range == TightRange(data)
    IN  IF i >= n - 1 THEN grid
        ELSE drawSegments(
                 drawLine(grid, w, h,
                          ColOf(i, w, n), TightRow(data[i + 1], min, range, h),
                          ColOf(i + 1, w, n), TightRow(data[i + 2], min, range, h)),
                 data, w, h, i + 1)

\* The rows of drawLineGraph: the label of row i is
\* format(max - (i / height) * range).padStart(padding.length - 2)
PlainLine(grid, data, padding, fmt, h, i) ==
    LET formattedLabel ==
            PadStart(FormatPlain(fmt, SeqMax(data) * h - i * TightRange(data), h),
                     Len(padding) - 2)
        rowChar == IF i = h THEN CROSS ELSE TEE
    IN  formattedLabel \o <<SPACE, rowChar>> \o grid[i + 1]

\* for (let i = 0; i <= height; i++) lines.push(row), from row i on
RECURSIVE PlainLinesLoop(_, _, _, _, _, _, _)
PlainLinesLoop(lines, grid, data, padding, fmt, h, i) ==
    IF i > h THEN lines
    ELSE PlainLinesLoop(Append(lines, PlainLine(grid, data, padding, fmt, h, i)),
                        grid, data, padding, fmt, h, i + 1)

PlainLines(grid, data, padding, fmt, h) ==
    PlainLinesLoop(<<>>, grid, data, padding, fmt, h, 0)

drawLineGraph(data, w, h, padding, fmt) ==
    IF Len(data) = 0 THEN EmptyResult
    ELSE IF Len(data) = 1
    THEN [out |-> padding \o FormatPlain(fmt, data[1], 1)
                    \o <<SPACE, CROSS>> \o Repeat(HLINE, w),
          canvas |-> <<>>, calls |-> 1, yMax |-> 0, stray |-> {}]
    ELSE LET grid == drawSegments(EmptyCanvas(w, h), data, w, h, 0)
         IN  [out |-> Join(PlainLines(grid, data, padding, fmt, h), NL),
              canvas |-> grid, calls |-> h + 1, yMax |-> 0, stray |-> {}]

\* ------------------------------------------------------------ line graphs
\* "First, draw connecting lines between points"
RECURSIVE dotSegments(_, _, _, _, _, _)
dotSegments(canvas, data, w, h, yRange, i) ==
    LET n == Len(data)
    IN  IF i >= n - 1 THEN canvas
        ELSE dotSegments(
                 dotLine(canvas, w, h,
                         ColOf(i, w, n), SteppedRow(data[i + 1], yRange, h),
                         ColOf(i + 1, w, n), SteppedRow(data[i + 2], yRange, h)),
                 data, w, h, yRange, i + 1)

\* plotPoints with a marker written only into a cell that holds a space
RECURSIVE plotPointsIfBlank(_, _, _, _, _, _)
plotPointsIfBlank(canvas, data, w, h, yRange, i) ==
    LET n == Len(data)
        x == ColOf(i, w, n)
        y == SteppedRow(data[i + 1], yRange, h)
    IN  IF i >= n THEN canvas
        ELSE plotPointsIfBlank(
                 IF InCanvas(w, h, x, y) /\ Cell(canvas, x, y) = SPACE
                 THEN Put(canvas, w, h, x, y, POINT) ELSE canvas,
                 data, w, h, yRange, i + 1)

\* "Then, plot the actual data points on top"
RECURSIVE plotPoints(_, _, _, _, _, _)
plotPoints(canvas, data, w, h, yRange, i) ==
    LET n == Len(data)
    IN  IF i >= n THEN canvas
        ELSE plotPoints(
                 Put(canvas, w, h, ColOf(i, w, n),
                     SteppedRow(data[i + 1], yRange, h), POINT),
                 data, w, h, yRange, i + 1)

\* SinglePointLine with the rule drawn over the full width and no marker
SinglePointLineNoMarker(value, w, padding, fmt) ==
    padding \o FormatCurrency(fmt, value, 1) \o <<SPACE, CROSS>> \o Repeat(HLINE, w)

\* The single data point case of createLineGraph and createSmoothLineGraph
SinglePointLine(value, w, padding, fmt) ==
    padding \o FormatCurrency(fmt, value, 1) \o <<SPACE, CROSS>>
        \o Repeat(HLINE, w - 1) \o <<POINT>>

createLineGraph(data, w, h, padding, fmt) ==
    IF Len(data) = 0 THEN EmptyResult
    ELSE IF Len(data) = 1
    THEN [out |-> SinglePointLine(data[1], w, padding, fmt),
          canvas |-> <<>>, calls |-> 1, yMax |-> 0, stray |-> {}]
    ELSE LET yMax == YMax(data)
             canvas == plotPoints(
                           dotSegments(EmptyCanvas(w, h), data, w, h, yMax, 0),
                           data, w, h, yMax, 0)
         IN  [out |-> Join(SteppedLines(canvas, yLabelsOf(yMax, h, fmt), padding, h), NL),
              canvas |-> canvas, calls |-> TickCalls(yMax, h), yMax |-> yMax,
              stray |-> {}]

createSmoothLineGraph(data, w, h, padding, fmt) ==
    IF Len(data) = 0 THEN EmptyResult
    ELSE IF Len(data) = 1
    THEN [out |-> SinglePointLine(data[1], w, padding, fmt),
          canvas |-> <<>>, calls |-> 1, yMax |-> 0, stray |-> {}]
    ELSE LET yMax == YMax(data)
             canvas == plotPoints(
                           dotSegments(EmptyCanvas(w, h), data, w, h, yMax, 0),
                           data, w, h, yMax, 0)
         IN  [out |-> Join(SteppedLines(canvas, yLabelsOf(yMax, h, fmt), padding, h), NL),
              canvas |-> canvas, calls |-> TickCalls(yMax, h), yMax |-> yMax,
              stray |-> {}]

\* ------------------------------------------------------------ bar graph
\* barAreaWidthOf rounding up (Math.ceil for Math.floor)
barAreaWidthOfCeil(w, n) == CeilDiv(w - 2, n)

\* Math.floor(availableWidth / data.length), availableWidth = width - 2
barAreaWidthOf(w, n) == FloorDiv(w - 2, n)

\* Math.max(1, Math.floor(barAreaWidth * 0.8))
barWidthOf(w, n) == Max2(1, FloorDiv(barAreaWidthOf(w, n) * 4, 5))

\* Math.max(1, Math.floor((barAreaWidth - barWidth) / 2))
spacingOf(w, n) == Max2(1, FloorDiv(barAreaWidthOf(w, n) - barWidthOf(w, n), 2))

barStartOf(i, w, n) == 1 + i * barAreaWidthOf(w, n) + spacingOf(w, n)

barEndOf(i, w, n) == Min2(barStartOf(i, w, n) + barWidthOf(w, n), w)

\* barHeightOf with Math.floor in place of Math.round
barHeightOfFloor(value, yRange, h) == FloorDiv(value * h, yRange)

\* Math.round(normalizedValue * height)
barHeightOf(value, yRange, h) == Round(value * h, yRange)

\* "Draw the bar from bottom up": rows height down to height - barHeight + 1,
\* columns barStart up to barEnd - 1
RECURSIVE fillBarRow(_, _, _, _, _, _)
fillBarRow(canvas, w, h, y, x, barEnd) ==
    IF x < barEnd
    THEN fillBarRow(Put(canvas, w, h, x, y, BLOCK), w, h, y, x + 1, barEnd)
    ELSE canvas

RECURSIVE fillBarLoop(_, _, _, _, _, _, _)
fillBarLoop(canvas, w, h, y, barStart, barEnd, barHeight) ==
    IF y > h - barHeight
    THEN fillBarLoop(fillBarRow(canvas, w, h, y, barStart, barEnd),
                     w, h, y - 1, barStart, barEnd, barHeight)
    ELSE canvas

fillBar(canvas, w, h, barStart, barEnd, barHeight) ==
    fillBarLoop(canvas, w, h, h, barStart, barEnd, barHeight)

\* for (let j = 0; j < valueStr.length; j++) canvas[valueY][valueX + j] = char
RECURSIVE writeValueLoop(_, _, _, _, _, _, _)
writeValueLoop(canvas, w, h, valueStr, valueX, valueY, j) ==
    IF j < Len(valueStr)
    THEN writeValueLoop(Put(canvas, w, h, valueX + j, valueY, valueStr[j + 1]),
                        w, h, valueStr, valueX, valueY, j + 1)
    ELSE canvas

\* writeValue without the test that the whole label lies inside the canvas:
\* the characters inside are written, the ones outside are skipped
writeValueTruncating(canvas, w, h, valueStr, valueX, valueY) ==
    writeValueLoop(canvas, w, h, valueStr, valueX, valueY, 0)

\* "Optionally add value on top of bar if there's space"
writeValue(canvas, w, h, valueStr, valueX, valueY) ==
    IF valueY >= 0 /\ valueX >= 0 /\ valueX + Len(valueStr) <= w
    THEN writeValueLoop(canvas, w, h, valueStr, valueX, valueY, 0)
    ELSE canvas

\* The assignments canvasRow[x] = BLOCK of the "Draw the bar from bottom up"
\* loops that pass its tests (x < width, canvasRow != null) with x below 0:
\* the row takes a property of that name and keeps its cells
strayWrites(data, w, h, yRange) ==
    {xy \in ((-Len(data))..(-1)) \X (0..h) :
        \E i \in 0..(Len(data) - 1) :
            /\ xy[2] > h - barHeightOf(data[i + 1], yRange, h)
            /\ xy[1] >= barStartOf(i, w, Len(data))
            /\ xy[1] < barEndOf(i, w, Len(data))}

\* One turn of the "Draw bars" loop
drawBar(canvas, data, w, h, yRange, fmt, i) ==
    LET n == Len(data)
        value == data[i + 1]
        barHeight == barHeightOf(value, yRange, h)
        barStart == barStartOf(i, w, n)
        filled == fillBar(canvas, w, h, barStart, barEndOf(i, w, n), barHeight)
        valueStr == FormatCurrency(fmt, value, 1)
    IN  IF barHeight < h - 1
        THEN writeValue(filled, w, h, valueStr,
                        barStart + FloorDiv(barWidthOf(w, n) - Len(valueStr), 2),
                        h - barHeight)
        ELSE filled

\* drawBars with the bars drawn from the last to the first
RECURSIVE drawBarsDescending(_, _, _, _, _, _, _)
drawBarsDescending(canvas, data, w, h, yRange, fmt, i) ==
    IF i >= Len(data) THEN canvas
    ELSE drawBar(drawBarsDescending(canvas, data, w, h, yRange, fmt, i + 1),
                 data, w, h, yRange, fmt, i)

\* The "Draw bars" loop, from bar i on
RECURSIVE drawBars(_, _, _, _, _, _, _)
drawBars(canvas, data, w, h, yRange, fmt, i) ==
    IF i >= Len(data) THEN canvas
    ELSE drawBars(drawBar(canvas, data, w, h, yRange, fmt, i),
                  data, w, h, yRange, fmt, i + 1)

createBarGraph(data, w, h, padding, fmt) ==
    IF Len(data) = 0 THEN EmptyResult
    ELSE LET yMax == YMax(data)
             canvas == drawBars(EmptyCanvas(w, h), data, w, h, yMax, fmt, 0)
         IN  [out |-> Join(SteppedLines(canvas, yLabelsOf(yMax, h, fmt), padding, h), NL),
              canvas |-> canvas,
              calls |-> Cardinality({i \in 1..Len(data) :
                                        barHeightOf(data[i], yMax, h) < h - 1})
                        + TickCalls(yMax, h),
              yMax |-> yMax,
              stray |-> strayWrites(data, w, h, yMax)]

\* ------------------------------------------------------------ daily x axis
labelPadding == Repeat(SPACE, 11)
minLabelSpacing == 10
minGraphWidth == 60
defaultColumns == 120
terminalMargin == 12

\* Math.max(60, terminalWidth - 12), terminalWidth = process.stdout.columns || 120
graphWidthOf(columns) ==
    Max2(minGraphWidth,
         (IF columns = 0 THEN defaultColumns ELSE columns) - terminalMargin)

maxLabelsOf(gw) == FloorDiv(gw, minLabelSpacing)

labelCountOf(gw, n) == Min2(maxLabelsOf(gw), n)

\* Math.ceil(dataPoints / labelCount)
labelIntervalOf(gw, n) == CeilDiv(n, labelCountOf(gw, n))

\* "Add intermediate dates": for (i = labelInterval; i < dataPoints - 1; i += labelInterval)
RECURSIVE intermediateLoop(_, _, _, _)
intermediateLoop(sel, i, interval, n) ==
    IF i < n - 1 THEN intermediateLoop(Append(sel, i), i + interval, interval, n)
    ELSE sel

\* pushLast with the last index pushed however close the previous one is
pushLastAlways(sel, interval, n) ==
    IF n > 1 THEN Append(sel, n - 1) ELSE sel

\* "Always show last date if not too close to previous"
pushLast(sel, interval, n) ==
    LET lastIndex == n - 1
        lastSelectedIndex == sel[Len(sel)]
    IN  IF n > 1 /\ (2 * (lastIndex - lastSelectedIndex) >= interval \/ Len(sel) = 1)
        THEN Append(sel, lastIndex)
        ELSE sel

selectIndices(gw, n) ==
    pushLast(intermediateLoop(<<0>>, labelIntervalOf(gw, n), labelIntervalOf(gw, n), n),
             labelIntervalOf(gw, n), n)

\* dates[index]: the day index days after 2025-01-01, as 'YYYY-MM-DD', in
\* months of 28 days
DateOf(index) ==
    <<"2", "0", "2", "5", "-">>
        \o PadZero2(1 + (index \div 28)) \o <<"-">> \o PadZero2(1 + (index % 28))

\* date.split('-').slice(1).join('/')
dateStrOf(date) == Join(Tail(Split(date, "-")), "/")

\* Math.round(labelPadding.length + index * pointSpacing),
\* pointSpacing = graphWidth / (dataPoints - 1), dataPoints > 1
targetPosOf(index, gw, n) == Round(Len(labelPadding) * (n - 1) + index * gw, n - 1)

\* The position of label i of the selection, the last one held inside the
\* graph's width
adjustedPosOf(i, sel, gw, n) ==
    LET index == sel[i + 1]
        targetPos == targetPosOf(index, gw, n)
    IN  IF i = Len(sel) - 1 /\ index = n - 1
        THEN Min2(targetPos, Len(labelPadding) + gw - Len(dateStrOf(DateOf(index))))
        ELSE targetPos

\* ------------------------------------------------------------ state
VARIABLES
    pc,               \* where the call, or the daily command, stands
    data,             \* the series passed to the renderer
    width,            \* options.width
    height,           \* options.height
    padding,          \* options.padding
    format,           \* options.format
    renderer,         \* the renderer that was called
    out,              \* the string the renderer returned
    canvas,           \* the grid the renderer built, <<>> when it built none
    formatCalls,      \* the calls of format the renderer made
    yMaxUsed,         \* the yMax the renderer computed, 0 when it computed none
    offCanvas,        \* the <<x, y>> the renderer assigned outside the rows' cells
    graphType,        \* daily: ctx.values.graph
    dataPoints,       \* daily: dailyData.length
    columns,          \* daily: process.stdout.columns, 0 when undefined
    selectedIndices,  \* daily: the label indices selected
    labelI,           \* daily: the loop variable of "Build the label string"
    xAxisLabels,      \* daily: the label line built so far
    currentPos,       \* daily: the column after the last label written
    fromX, fromY,     \* drawLine: x1, y1
    toX, toY,         \* drawLine: x2, y2
    curX, curY,       \* drawLine: x, y
    curErr,           \* drawLine: err
    steps             \* drawLine: the turns of the loop that stepped

renderVars == <<data, width, height, padding, format, renderer, out, canvas,
               formatCalls, yMaxUsed, offCanvas>>
dailyVars == <<graphType, dataPoints, columns, selectedIndices, labelI, xAxisLabels, currentPos>>
lineVars == <<fromX, fromY, toX, toY, curX, curY, curErr, steps>>
vars == <<pc, data, width, height, padding, format, renderer, out, canvas, formatCalls,
          yMaxUsed, offCanvas,
          graphType, dataPoints, columns, selectedIndices, labelI, xAxisLabels, currentPos,
          fromX, fromY, toX, toY, curX, curY, curErr, steps>>

\* The series of at most MaxLen values, and the longer ones of at most
\* MaxBars values among BarValues
Series ==
    UNION {[1..n -> Values] : n \in 0..MaxLen}
        \cup UNION {[1..n -> BarValues] : n \in (MaxLen + 1)..MaxBars}

\* The terminal widths: undefined (0), and the widths from the narrowest
\* that widens the graph
Columns == {0} \cup ((minGraphWidth + terminalMargin)..MaxTerminal)

\* No line is being drawn
NoLine ==
    /\ fromX = 0 /\ fromY = 0 /\ toX = 0 /\ toY = 0
    /\ curX = 0 /\ curY = 0 /\ curErr = 0 /\ steps = 0

\* A call of a renderer about to be made
InitRender ==
    /\ pc = "ready"
    /\ data \in Series
    /\ width \in 1..MaxWidth
    /\ height \in 1..MaxHeight
    /\ \E o \in Options : padding = o.padding /\ format = o.format
    /\ renderer = "none"
    /\ out = <<>>
    /\ canvas = <<>>
    /\ formatCalls = 0
    /\ yMaxUsed = 0
    /\ offCanvas = {}
    /\ NoLine
    /\ graphType = "none"
    /\ dataPoints = 0
    /\ columns = 0
    /\ selectedIndices = <<>>
    /\ labelI = 0
    /\ xAxisLabels = <<>>
    /\ currentPos = 0

\* The daily command with its graph printed, about to print the x axis
InitDaily ==
    /\ pc = "daily"
    /\ graphType \in {"line", "bar"}
    /\ dataPoints \in 1..MaxPoints
    /\ columns \in Columns
    /\ selectedIndices = <<>>
    /\ labelI = 0
    /\ xAxisLabels = <<>>
    /\ currentPos = 0
    /\ data = <<>>
    /\ width = 1
    /\ height = 1
    /\ padding = <<>>
    /\ format = "default"
    /\ renderer = "none"
    /\ out = <<>>
    /\ canvas = <<>>
    /\ formatCalls = 0
    /\ yMaxUsed = 0
    /\ offCanvas = {}
    /\ NoLine

Init == InitRender \/ InitDaily

\* The coordinates of a segment's end points: the cells of a small canvas and
\* the ones next to it on the outside
Coords == (-1)..MaxCoord

\* drawLine called with (x1, y1), (x2, y2), before the first turn of its loop
InitLine ==
    /\ pc = "line"
    /\ fromX \in Coords /\ fromY \in Coords
    /\ toX \in Coords /\ toY \in Coords
    /\ curX = fromX /\ curY = fromY
    /\ curErr = Abs(toX - fromX) - Abs(toY - fromY)
    /\ steps = 0
    /\ data = <<>>
    /\ width = 1
    /\ height = 1
    /\ padding = <<>>
    /\ format = "default"
    /\ renderer = "none"
    /\ out = <<>>
    /\ canvas = <<>>
    /\ formatCalls = 0
    /\ yMaxUsed = 0
    /\ offCanvas = {}
    /\ graphType = "none"
    /\ dataPoints = 0
    /\ columns = 0
    /\ selectedIndices = <<>>
    /\ labelI = 0
    /\ xAxisLabels = <<>>
    /\ currentPos = 0

\* ------------------------------------------------------------ actions
Return(name, result) ==
    /\ pc = "ready"
    /\ pc' = "returned"
    /\ renderer' = name
    /\ out' = result.out
    /\ canvas' = result.canvas
    /\ formatCalls' = result.calls
    /\ yMaxUsed' = result.yMax
    /\ offCanvas' = result.stray
    /\ UNCHANGED <<data, width, height, padding, format>>
    /\ UNCHANGED dailyVars
    /\ UNCHANGED lineVars

CallDrawLineGraph ==
    Return("drawLineGraph", drawLineGraph(data, width, height, padding, format))

CallCreateSmoothLineGraph ==
    Return("createSmoothLineGraph",
           createSmoothLineGraph(data, width, height, padding, format))

CallCreateLineGraph ==
    Return("createLineGraph", createLineGraph(data, width, height, padding, format))

CallCreateBarGraph ==
    Return("createBarGraph", createBarGraph(data, width, height, padding, format))

\* graphType === 'line' && dailyData.length < 2: warn and exit
DailyExit ==
    /\ pc = "daily"
    /\ graphType = "line" /\ dataPoints < 2
    /\ pc' = "exited"
    /\ UNCHANGED renderVars
    /\ UNCHANGED lineVars
    /\ UNCHANGED dailyVars

\* "Select indices to show"
DailySelect ==
    /\ pc = "daily"
    /\ ~(graphType = "line" /\ dataPoints < 2)
    /\ pc' = "labels"
    /\ selectedIndices' = selectIndices(graphWidthOf(columns), dataPoints)
    /\ labelI' = 0
    /\ xAxisLabels' = labelPadding
    /\ currentPos' = Len(labelPadding)
    /\ UNCHANGED <<graphType, dataPoints, columns>>
    /\ UNCHANGED renderVars
    /\ UNCHANGED lineVars

\* One turn of "Build the label string".  With one data point pointSpacing
\* is graphWidth / 0 and the position 0 * Infinity is NaN, which compares
\* false: the label is not written.
DailyPlace ==
    /\ pc = "labels"
    /\ labelI < Len(selectedIndices)
    /\ LET gw == graphWidthOf(columns)
           dateStr == dateStrOf(DateOf(selectedIndices[labelI + 1]))
           adjustedPos == adjustedPosOf(labelI, selectedIndices, gw, dataPoints)
       IN  IF dataPoints > 1 /\ adjustedPos >= currentPos
           THEN /\ xAxisLabels' = xAxisLabels
                                    \o Repeat(SPACE, Max2(0, adjustedPos - currentPos))
                                    \o dateStr
                /\ currentPos' = adjustedPos + Len(dateStr)
           ELSE UNCHANGED <<xAxisLabels, currentPos>>
    /\ labelI' = labelI + 1
    /\ UNCHANGED <<pc, graphType, dataPoints, columns, selectedIndices>>
    /\ UNCHANGED renderVars
    /\ UNCHANGED lineVars

\* log(xAxisLabels)
DailyPrint ==
    /\ pc = "labels"
    /\ labelI = Len(selectedIndices)
    /\ pc' = "printed"
    /\ UNCHANGED renderVars
    /\ UNCHANGED lineVars
    /\ UNCHANGED dailyVars

\* One turn of the while (true) loop of drawLine that does not break: e2,
\* the x step and the y step.  A loop that has not come to its end point
\* after more turns than its two distances together is left to run on.
DrawLineStep ==
    /\ pc = "line"
    /\ ~(curX = toX /\ curY = toY)
    /\ steps <= Abs(toX - fromX) + Abs(toY - fromY)
    /\ LET s == BresenhamStep(curX, curY, curErr,
                              Abs(toX - fromX), Abs(toY - fromY),
                              IF fromX < toX THEN 1 ELSE -1,
                              IF fromY < toY THEN 1 ELSE -1)
       IN  /\ curX' = s.x
           /\ curY' = s.y
           /\ curErr' = s.err
    /\ steps' = steps + 1
    /\ UNCHANGED <<pc, fromX, fromY, toX, toY>>
    /\ UNCHANGED renderVars
    /\ UNCHANGED dailyVars

\* if (x === x2 && y === y2) break
DrawLineBreak ==
    /\ pc = "line"
    /\ curX = toX /\ curY = toY
    /\ pc' = "drawn"
    /\ UNCHANGED lineVars
    /\ UNCHANGED renderVars
    /\ UNCHANGED dailyVars

Next ==
    \/ CallDrawLineGraph
    \/ CallCreateSmoothLineGraph
    \/ CallCreateLineGraph
    \/ CallCreateBarGraph
    \/ DailyExit
    \/ DailySelect
    \/ DailyPlace
    \/ DailyPrint

Spec == Init /\ [][Next]_vars

\* The loop of drawLine alone; a turn that can be taken is taken
NextLine == DrawLineStep \/ DrawLineBreak

SpecLine == InitLine /\ [][NextLine]_vars /\ WF_vars(NextLine)

\* ------------------------------------------------------------ claims
\* The lines of the returned string
OutLines == Split(out, NL)

\* C1 (as stated): for a single-element series every renderer, createBarGraph
\* included, returns one line and builds no grid.
C1_AllModesOneLine ==
    (pc = "returned" /\ Len(data) = 1) =>
        /\ canvas = <<>>
        /\ \A i \in 1..Len(out) : out[i] # NL

\* C1 (amended): for a single-element series drawLineGraph,
\* createSmoothLineGraph and createLineGraph return exactly one line and build
\* no grid: the padding, the formatted value, a space, the baseline glyph and
\* a rule of width cells, all HLINE in drawLineGraph and ending in POINT in
\* the two point-marker renderers.  createBarGraph has no single-point case:
\* it builds the grid and returns height + 1 rows.
C1_SinglePoint ==
    (pc = "returned" /\ Len(data) = 1) =>
        IF renderer = "createBarGraph"
        THEN canvas # <<>> /\ Len(OutLines) = height + 1
        ELSE LET label == IF renderer = "drawLineGraph"
                          THEN FormatPlain(format, data[1], 1)
                          ELSE FormatCurrency(format, data[1], 1)
                 k == Len(padding) + Len(label)
             IN  /\ canvas = <<>>
                 /\ \A i \in 1..Len(out) : out[i] # NL
                 /\ Len(out) = k + 2 + width
                 /\ SubSeq(out, 1, Len(padding)) = padding
                 /\ SubSeq(out, Len(padding) + 1, k) = label
                 /\ out[k + 1] = SPACE
                 /\ out[k + 2] = CROSS
                 /\ \A i \in 1..(width - 1) : out[k + 2 + i] = HLINE
                 /\ out[k + 2 + width] =
                        (IF renderer = "drawLineGraph" THEN HLINE ELSE POINT)

C1_Witness ==
    /\ pc = "returned"
    /\ Len(data) = 1
    /\ renderer = "createLineGraph"
    /\ width >= 2
    /\ padding # <<>>
    /\ out[Len(out)] = POINT

\* C2: for a series of two or more elements every renderer returns a string
\* that splits on newline into height + 1 lines, line r ending with the cells
\* of canvas row r.
C2_HeightPlusOneLines ==
    (pc = "returned" /\ Len(data) >= 2) =>
        LET lines == OutLines
        IN  /\ Len(lines) = height + 1
            /\ Len(canvas) = height + 1
            /\ \A r \in 1..(height + 1) :
                   /\ Len(lines[r]) >= width
                   /\ SubSeq(lines[r], Len(lines[r]) - width + 1, Len(lines[r]))
                          = canvas[r]

C2_Witness ==
    /\ pc = "returned"
    /\ Len(data) >= 2
    /\ renderer = "createBarGraph"
    /\ height >= 2
    /\ Len(OutLines) = height + 1

\* C3: for the empty series every renderer returns the empty string, builds
\* no canvas and never calls format.
C3_EmptySeries ==
    (pc = "returned" /\ Len(data) = 0) =>
        /\ out = <<>>
        /\ canvas = <<>>
        /\ formatCalls = 0

C3_Witness ==
    /\ pc = "returned"
    /\ data = <<>>
    /\ padding # <<>>
    /\ renderer = "createBarGraph"
    /\ out = <<>>

\* C4 (as stated): for every [v] with v > 0 and every width and height the
\* output of createBarGraph contains a block glyph and format(v).
C4_AlwaysBlockAndValue ==
    (pc = "returned" /\ renderer = "createBarGraph"
        /\ Len(data) = 1 /\ data[1] > 0) =>
        /\ Includes(out, <<BLOCK>>)
        /\ Includes(out, FormatCurrency(format, data[1], 1))

\* C4 (amended): for [v] with v > 0, yMax = 20 * ceil(v / 20) and
\* barHeight = round(v / yMax * height), the output of createBarGraph contains
\* a block glyph exactly when width >= 3 and barHeight >= 1, and it contains
\* format(v) whenever barHeight < height - 1 and the label centred over the
\* bar lies inside the canvas (0 <= valueX and valueX + length <= width).
C4_BlockAndValue ==
    (pc = "returned" /\ renderer = "createBarGraph"
        /\ Len(data) = 1 /\ data[1] > 0) =>
        LET v == data[1]
            yMax == ((v + 19) \div 20) * 20
            barHeight == (2 * v * height + yMax) \div (2 * yMax)
            barAreaWidth == width - 2
            barWidth == Max2(1, (4 * barAreaWidth) \div 5)
            spacing == Max2(1, (barAreaWidth - barWidth) \div 2)
            valueStr == FormatCurrency(format, v, 1)
            valueX == 1 + spacing + ((barWidth - Len(valueStr)) \div 2)
        IN  /\ Includes(out, <<BLOCK>>) <=> (width >= 3 /\ barHeight >= 1)
            /\ (barHeight < height - 1 /\ valueX >= 0
                   /\ valueX + Len(valueStr) <= width)
                   => Includes(out, valueStr)

C4_Witness ==
    /\ pc = "returned"
    /\ renderer = "createBarGraph"
    /\ Len(data) = 1
    /\ data[1] > 0
    /\ Includes(out, <<BLOCK>>)
    /\ Includes(out, FormatCurrency(format, data[1], 1))

\* C5: for every dataPoints >= 2 and graphWidth the number of x-axis label
\* indices selected (index 0, the multiples of labelInterval, the last index)
\* is at most floor(graphWidth / 10).
C5_AtMostMaxLabels ==
    (pc \in {"labels", "printed"} /\ dataPoints >= 2) =>
        Len(selectedIndices) <= graphWidthOf(columns) \div minLabelSpacing

\* C6 (as stated): for every dataPoints >= 2 the selection starts with index
\* 0 and ends with the last index dataPoints - 1, which takes the place of a
\* previous index closer than half an interval.
C6_LastIndexSelected ==
    (pc \in {"labels", "printed"} /\ dataPoints >= 2) =>
        /\ selectedIndices[1] = 0
        /\ selectedIndices[Len(selectedIndices)] = dataPoints - 1

\* C6 (amended): for every dataPoints >= 2, with
\* I = ceil(dataPoints / min(floor(graphWidth / 10), dataPoints)) and prev the
\* largest multiple of I below the last index, the selection is strictly
\* increasing, starts with 0, holds the multiples of I below the last index,
\* prev among them, and holds the last index exactly when
\* last - prev >= I / 2 or prev = 0: a previous index closer than half an
\* interval stays and the last index is left out.
C6_LastUnlessClose ==
    (pc \in {"labels", "printed"} /\ dataPoints >= 2) =>
        LET n == dataPoints
            gw == graphWidthOf(columns)
            count == Min2(gw \div 10, n)
            I == (n + count - 1) \div count
            prev == ((n - 2) \div I) * I
            sel == selectedIndices
            chosen == {sel[k] : k \in 1..Len(sel)}
        IN  /\ sel[1] = 0
            /\ \A k \in 1..(Len(sel) - 1) : sel[k] < sel[k + 1]
            /\ \A i \in 0..(n - 2) : i \in chosen <=> i % I = 0
            /\ prev \in chosen
            /\ (n - 1) \in chosen <=> (2 * (n - 1 - prev) >= I \/ prev = 0)

C6_Witness ==
    /\ pc = "printed"
    /\ dataPoints >= 2
    /\ Len(selectedIndices) >= 2
    /\ selectedIndices[Len(selectedIndices)] # dataPoints - 1

\* C7: after the label placement for dataPoints >= 2 and graphWidth >= 60 the
\* last label written ends at or before column
\* labelPadding.length + graphWidth: the label line never extends past the
\* right edge of the graph.
C7_LabelsInsideGraph ==
    (pc = "printed" /\ dataPoints >= 2) =>
        /\ currentPos <= Len(labelPadding) + graphWidthOf(columns)
        /\ Len(xAxisLabels) <= Len(labelPadding) + graphWidthOf(columns)

\* A series of two or more equal non-zero values
Flat(series) ==
    /\ Len(series) >= 2
    /\ series[1] # 0
    /\ \A i \in 1..Len(series) : series[i] = series[1]

\* C8 (as stated): for a series of two or more equal non-zero values
\* drawLineGraph leaves a single horizontal rule on the canvas: HLINE glyphs
\* only, all of them in the midpoint row, every other cell a space.
C8_FlatRuleAtMidpoint ==
    (pc = "returned" /\ renderer = "drawLineGraph" /\ Flat(data)) =>
        \E mid \in 0..height :
            /\ 2 * mid \in {height - 1, height, height + 1}
            /\ \E x \in 1..width : canvas[mid + 1][x] = HLINE
            /\ \A y \in 0..height : \A x \in 1..width :
                   /\ canvas[y + 1][x] \in {SPACE, HLINE}
                   /\ canvas[y + 1][x] = HLINE => y = mid

\* C8 (amended): for a series of two or more equal non-zero values the range
\* of drawLineGraph is 1 and every point falls on the bottom row (row
\* height): the rows above it are blank and the bottom row is drawn across
\* the whole width.  Its cells are all HLINE when the series has no more
\* points than the canvas has columns; with width 1 they are VLINE, and when
\* the last two points share the last column (2 * (width - 1) <= n - 1) the
\* last cell is CROSS or VLINE.
C8_FlatRuleAtBottom ==
    (pc = "returned" /\ renderer = "drawLineGraph" /\ Flat(data)) =>
        LET n == Len(data)
            bottom == canvas[height + 1]
        IN  /\ TightRange(data) = 1
            /\ \A y \in 1..height : \A x \in 1..width : canvas[y][x] = SPACE
            /\ \A x \in 1..width : bottom[x] \in {HLINE, VLINE, CROSS}
            /\ n <= width => \A x \in 1..width : bottom[x] = HLINE
            /\ width = 1 => bottom[1] = VLINE
            /\ 2 * (width - 1) <= n - 1 => bottom[width] \in {CROSS, VLINE}

C8_Witness ==
    /\ pc = "returned"
    /\ renderer = "drawLineGraph"
    /\ Flat(data)
    /\ height >= 2
    /\ width >= Len(data)
    /\ \A x \in 1..width : canvas[height + 1][x] = HLINE

\* C9 (as stated): every line of every renderer's output, single-point and
\* multi-point, starts with the padding, followed by the label, one space,
\* the axis glyph and the row's cells.
C9_EveryLinePadded ==
    (pc = "returned" /\ Len(data) >= 1) =>
        LET lines == OutLines
        IN  \A r \in 1..Len(lines) :
                /\ Len(lines[r]) >= Len(padding) + 2 + width
                /\ SubSeq(lines[r], 1, Len(padding)) = padding
                /\ lines[r][Len(lines[r]) - width - 1] = SPACE
                /\ lines[r][Len(lines[r]) - width] \in {CROSS, TEE}

\* C9 (amended): the single-point line of drawLineGraph, createSmoothLineGraph
\* and createLineGraph and every line of createBarGraph, and of the two
\* point-marker renderers for two or more points, is the padding, a label of
\* one width for all rows, one space, the axis glyph (CROSS on the baseline)
\* and the row's cells.  The rows of drawLineGraph for two or more points do
\* not carry the padding: row r is the label
\* format(max - (r / height) * range) padded at the start to
\* padding.length - 2 characters, one space, the axis glyph (TEE, CROSS on
\* the baseline) and the row's cells.
C9_PaddingPrefix ==
    (pc = "returned" /\ Len(data) >= 1) =>
        LET lines == OutLines
        IN  IF canvas = <<>>
            THEN /\ Len(lines) = 1
                 /\ Len(out) >= Len(padding) + 2 + width
                 /\ SubSeq(out, 1, Len(padding)) = padding
                 /\ out[Len(out) - width - 1] = SPACE
                 /\ out[Len(out) - width] = CROSS
            ELSE IF renderer = "drawLineGraph"
            THEN \A r \in 0..height :
                     lines[r + 1] =
                         PadStart(FormatPlain(format,
                                      SeqMax(data) * height
                                          - r * (IF SeqMax(data) = SeqMin(data) THEN 1
                                                 ELSE SeqMax(data) - SeqMin(data)),
                                      height),
                                  Len(padding) - 2)
                         \o <<SPACE, IF r = height THEN CROSS ELSE TEE>>
                         \o canvas[r + 1]
            ELSE \A r \in 0..height :
                     LET line == lines[r + 1]
                         k == Len(line) - width - 2
                     IN  /\ k >= Len(padding)
                         /\ Len(line) = Len(lines[1])
                         /\ SubSeq(line, 1, Len(padding)) = padding
                         /\ line[k + 1] = SPACE
                         /\ line[k + 2] \in {CROSS, TEE}
                         /\ r = height => line[k + 2] = CROSS
                         /\ SubSeq(line, k + 3, Len(line)) = canvas[r + 1]

C9_Witness ==
    /\ pc = "returned"
    /\ renderer = "drawLineGraph"
    /\ Len(data) >= 2
    /\ Len(padding) = 3
    /\ out[1] # padding[1]

\* C10 (as stated): under the stepped domain, for every non-empty series,
\* yMax is a multiple of 20, at least max(data) and at least 20, and exactly
\* 20 when max(data) is 0, so that yRange is positive.
C10_YMaxAtLeastOneStep ==
    (pc = "returned" /\ renderer # "drawLineGraph" /\ canvas # <<>>) =>
        /\ yMaxUsed % 20 = 0
        /\ yMaxUsed >= SeqMax(data)
        /\ yMaxUsed >= 20
        /\ SeqMax(data) = 0 => yMaxUsed = 20

\* C10 (amended): under the stepped domain, whenever yMax is computed (a
\* non-empty series in createBarGraph, two or more points in the two
\* point-marker renderers), yMax is a multiple of 20, at least max(data) and
\* less than max(data) + 20, except that it is 20 instead of 0.  For
\* max(data) > -20 it is therefore at least 20, exactly 20 when max(data) is
\* 0, and yRange is positive; for max(data) <= -20 it is negative, and so is
\* yRange.
C10_YMaxSteppedDomain ==
    (pc = "returned" /\ renderer # "drawLineGraph" /\ canvas # <<>>) =>
        LET m == SeqMax(data)
        IN  /\ yMaxUsed % 20 = 0
            /\ yMaxUsed >= m
            /\ yMaxUsed # 0
            /\ IF m > -20
               THEN /\ yMaxUsed >= 20
                    /\ m > 0 => yMaxUsed < m + 20
                    /\ m <= 0 => yMaxUsed = 20
               ELSE /\ yMaxUsed < 0
                    /\ yMaxUsed < m + 20

C10_Witness ==
    /\ pc = "returned"
    /\ renderer = "createBarGraph"
    /\ canvas # <<>>
    /\ SeqMax(data) = 0
    /\ yMaxUsed = 20

\* C11: in every renderer every write to the canvas targets a cell with row
\* in [0, height] and column in [0, width): a coordinate outside is skipped,
\* and the canvas keeps its height + 1 by width shape.
C11_WritesInsideCanvas ==
    pc = "returned" =>
        /\ offCanvas = {}
        /\ canvas # <<>> =>
               /\ Len(canvas) = height + 1
               /\ \A y \in 1..(height + 1) : Len(canvas[y]) = width

\* The turns a line from (x1, y1) to (x2, y2) takes: the larger of its two
\* distances
LineLength == Max2(Abs(toX - fromX), Abs(toY - fromY))

\* C12: for every pair of integer end points the stepping loop of drawLine
\* terminates: it starts at (x1, y1), every turn changes x by at most 1 and y
\* by at most 1, never away from the end point, the cell reached after k
\* turns is k cells from the start along the longer distance, and the loop
\* breaks at (x2, y2) after exactly max(|x2 - x1|, |y2 - y1|) turns.
C12_Terminates ==
    /\ [](pc \in {"line", "drawn"} =>
            /\ steps <= LineLength
            /\ Max2(Abs(curX - fromX), Abs(curY - fromY)) = steps
            /\ steps = 0 => (curX = fromX /\ curY = fromY)
            /\ pc = "drawn" =>
                   (curX = toX /\ curY = toY /\ steps = LineLength))
    /\ [][(pc = "line" /\ pc' = "line") =>
            /\ Abs(curX' - curX) <= 1
            /\ Abs(curY' - curY) <= 1
            /\ Abs(toX - curX') <= Abs(toX - curX)
            /\ Abs(toY - curY') <= Abs(toY - curY)]_vars
    /\ (pc = "line") ~> (pc = "drawn")

C12_Witness ==
    /\ pc = "drawn"
    /\ Abs(toX - fromX) = 3
    /\ Abs(toY - fromY) = 2
    /\ steps = 3
    /\ curX = toX
    /\ curY = toY

\* The column and the row of the marker of data point i (from 1) in the
\* point-marker renderers
MarkerCol(i) == Round((i - 1) * (width - 1), Len(data) - 1)
MarkerRow(i) == Round(height * yMaxUsed - data[i] * height, yMaxUsed)

\* C13 (as stated): in createLineGraph and createSmoothLineGraph, for a
\* multi-point series the cell of every data point whose value lies in
\* [0, yMax] holds POINT, and every other non-space cell holds DOT.
C13_MarkersOfValuesInDomain ==
    (pc = "returned" /\ Len(data) >= 2
        /\ renderer \in {"createLineGraph", "createSmoothLineGraph"}) =>
        LET marked == {<<MarkerCol(i), MarkerRow(i)>> :
                          i \in {j \in 1..Len(data) :
                                    data[j] >= 0 /\ data[j] <= yMaxUsed}}
        IN  \A x \in 0..(width - 1) : \A y \in 0..height :
                IF <<x, y>> \in marked THEN canvas[y + 1][x + 1] = POINT
                ELSE canvas[y + 1][x + 1] \in {SPACE, DOT}

\* C13 (amended): in createLineGraph and createSmoothLineGraph, for a
\* multi-point series the cell of every data point whose row
\* round(height - v / yMax * height) lies in [0, height] holds POINT,
\* whichever segments pass through it, and every other non-space cell holds
\* DOT.  With yMax > 0 these are the points with values in [0, yMax] and the
\* points with a negative value that rounds to the baseline row.
C13_MarkersOfRowsInCanvas ==
    (pc = "returned" /\ Len(data) >= 2
        /\ renderer \in {"createLineGraph", "createSmoothLineGraph"}) =>
        LET marked == {<<MarkerCol(i), MarkerRow(i)>> :
                          i \in {j \in 1..Len(data) :
                                    MarkerRow(j) >= 0 /\ MarkerRow(j) <= height}}
        IN  /\ \A x \in 0..(width - 1) : \A y \in 0..height :
                   IF <<x, y>> \in marked THEN canvas[y + 1][x + 1] = POINT
                   ELSE canvas[y + 1][x + 1] \in {SPACE, DOT}
            /\ yMaxUsed > 0 =>
                   \A i \in 1..Len(data) :
                       /\ (data[i] >= 0 /\ data[i] <= yMaxUsed)
                              => (MarkerRow(i) >= 0 /\ MarkerRow(i) <= height)
                       /\ (MarkerRow(i) >= 0 /\ MarkerRow(i) <= height /\ data[i] < 0)
                              => MarkerRow(i) = height

C13_Witness ==
    /\ pc = "returned"
    /\ renderer = "createLineGraph"
    /\ Len(data) = 3
    /\ data[1] < 0
    /\ canvas[height + 1][1] = POINT
    /\ \E x \in 1..width : \E y \in 1..(height + 1) : canvas[y][x] = DOT

\* The last bar of the series, the one nothing is drawn after: its height,
\* its first column, its label, and the column and row of the label
LastBarHeight == Round(data[Len(data)] * height, yMaxUsed)
LastBarStart ==
    LET n == Len(data)
        barAreaWidth == (width - 2) \div n
        barWidth == Max2(1, (4 * barAreaWidth) \div 5)
    IN  1 + (n - 1) * barAreaWidth + Max2(1, (barAreaWidth - barWidth) \div 2)
LastValueStr == FormatCurrency(format, data[Len(data)], 1)
LastValueX ==
    LET barAreaWidth == (width - 2) \div Len(data)
        barWidth == Max2(1, (4 * barAreaWidth) \div 5)
    IN  LastBarStart + ((barWidth - Len(LastValueStr)) \div 2)
LastValueY == height - LastBarHeight

\* C14 (as stated): in createBarGraph the value of a bar with
\* barHeight < height - 1 is written centred over the bar into row
\* height - barHeight character by character: every character whose column
\* lies inside the canvas is written, the others are skipped.
C14_LabelTruncated ==
    (pc = "returned" /\ renderer = "createBarGraph" /\ Len(data) >= 1
        /\ LastBarHeight < height - 1 /\ LastValueY <= height) =>
        \A j \in 1..Len(LastValueStr) :
            (LastValueX + j - 1 >= 0 /\ LastValueX + j - 1 < width) =>
                canvas[LastValueY + 1][LastValueX + j] = LastValueStr[j]

\* C14 (amended): in createBarGraph the value of a bar with
\* barHeight < height - 1 is written only when the whole label lies inside
\* the canvas (0 <= valueX and valueX + length <= width): then it stands
\* centred over the bar in row height - barHeight, the row above the bar's
\* top filled row.  A label that only partly fits is dropped whole: for a
\* single bar the canvas then holds nothing but spaces and blocks.
C14_LabelWholeOrDropped ==
    (pc = "returned" /\ renderer = "createBarGraph" /\ Len(data) >= 1) =>
        LET fits == /\ LastBarHeight < height - 1
                    /\ LastValueY <= height
                    /\ LastValueX >= 0
                    /\ LastValueX + Len(LastValueStr) <= width
        IN  /\ fits =>
                /\ \A j \in 1..Len(LastValueStr) :
                       canvas[LastValueY + 1][LastValueX + j] = LastValueStr[j]
                /\ (LastBarHeight >= 1 /\ LastBarStart < width) =>
                       canvas[LastValueY + 2][LastBarStart + 1] = BLOCK
            /\ (Len(data) = 1 /\ ~fits) =>
                \A y \in 1..(height + 1) : \A x \in 1..width :
                    canvas[y][x] \in {SPACE, BLOCK}

C14_Witness ==
    /\ pc = "returned"
    /\ renderer = "createBarGraph"
    /\ Len(data) = 1
    /\ LastBarHeight >= 1
    /\ LastBarHeight < height - 1
    /\ LastValueX >= 0
    /\ LastValueX < width
    /\ LastValueX + Len(LastValueStr) > width
    /\ \E x \in 1..width : canvas[height + 1][x] = BLOCK

\* The slot of a bar: the width of a slot, the width of a bar, and the first
\* column of bar i (from 0)
SlotWidth == (width - 2) \div Len(data)
SlotBarWidth == Max2(1, (4 * SlotWidth) \div 5)
SlotStart(i) == 1 + i * SlotWidth + Max2(1, (SlotWidth - SlotBarWidth) \div 2)

\* C15 (as stated): in createBarGraph, for every n >= 1 and width >= 3, the
\* column ranges of distinct bars are pairwise disjoint and each lies inside
\* [0, width): no two bars share a column and no bar is clipped.
C15_BarsDisjoint ==
    (pc = "returned" /\ renderer = "createBarGraph"
        /\ Len(data) >= 1 /\ width >= 3) =>
        /\ \A i \in 0..(Len(data) - 1) :
               SlotStart(i) >= 0 /\ SlotStart(i) + SlotBarWidth <= width
        /\ \A i \in 0..(Len(data) - 1) : \A j \in 0..(Len(data) - 1) :
               i < j => SlotStart(i) + SlotBarWidth <= SlotStart(j)

\* C15 (amended): in createBarGraph with width >= 3 every block of the
\* canvas lies in the column range of a bar.  For n <= width - 2 the ranges
\* of distinct bars are pairwise disjoint and each lies whole inside
\* [0, width).  For n > width - 2 the slot width is 0: every bar has the
\* range [2, 3) and all blocks of the canvas stand in column 2.
C15_BarsDisjointWhenRoom ==
    (pc = "returned" /\ renderer = "createBarGraph"
        /\ Len(data) >= 1 /\ width >= 3) =>
        LET n == Len(data)
            blocks == {xy \in (0..(width - 1)) \X (0..height) :
                          canvas[xy[2] + 1][xy[1] + 1] = BLOCK}
        IN  /\ \A xy \in blocks : \E i \in 0..(n - 1) :
                   SlotStart(i) <= xy[1] /\ xy[1] < SlotStart(i) + SlotBarWidth
            /\ n <= width - 2 =>
                   /\ \A i \in 0..(n - 1) :
                          SlotStart(i) >= 0 /\ SlotStart(i) + SlotBarWidth <= width
                   /\ \A i \in 0..(n - 1) : \A j \in 0..(n - 1) :
                          i < j => SlotStart(i) + SlotBarWidth <= SlotStart(j)
            /\ n > width - 2 =>
                   /\ \A i \in 0..(n - 1) : SlotStart(i) = 2 /\ SlotBarWidth = 1
                   /\ \A xy \in blocks : xy[1] = 2

C15_Witness ==
    /\ pc = "returned"
    /\ renderer = "createBarGraph"
    /\ Len(data) = 2
    /\ width = 3
    /\ height = 3
    /\ data[1] = 7
    /\ data[2] = 45
    /\ canvas[3][3] = BLOCK
    /\ canvas[4][3] = BLOCK

\* The label of output line r (from 0) of a stepped renderer: what stands
\* between the padding and the space before the axis glyph
RowLabel(r) ==
    LET line == OutLines[r + 1]
    IN  SubSeq(line, Len(padding) + 1, Len(line) - width - 2)

\* The largest tick 0, 20, ..., yMax that rounds to the baseline row:
\* round(height - t / yMax * height) = height, that is 2 * t * height <= yMax
BaselineTick ==
    CHOOSE t \in {20 * k : k \in 0..(yMaxUsed \div 20)} :
        /\ 2 * t * height <= yMaxUsed
        /\ \A u \in {20 * k : k \in 0..(yMaxUsed \div 20)} :
               2 * u * height <= yMaxUsed => u <= t

\* C16 (as stated): in the stepped renderers, for every multi-point series
\* and every height >= 1, the top row 0 carries the label format(yMax) and
\* the baseline row height carries the label format(0).
C16_TopAndZeroLabels ==
    (pc = "returned" /\ renderer # "drawLineGraph" /\ Len(data) >= 2) =>
        LET w == Len(RowLabel(0))
        IN  /\ RowLabel(0) = PadStart(FormatCurrency(format, yMaxUsed, 1), w)
            /\ RowLabel(height) = PadStart(FormatCurrency(format, 0, 1), w)

\* C16 (amended): in the stepped renderers, for every series that draws a
\* grid with yMax > 0, the top row 0 carries the label format(yMax) and the
\* baseline row height carries the label of the last tick that rounds to
\* it, format(t) for the largest multiple t of 20 with t / yMax * height
\* <= 1/2: format(0) exactly when yMax < 40 * height.  With yMax < 0 no tick
\* is recorded and every row's label is empty.
C16_TopAndBaselineLabels ==
    (pc = "returned" /\ renderer # "drawLineGraph" /\ canvas # <<>>) =>
        LET w == Len(RowLabel(0))
        IN  IF yMaxUsed > 0
            THEN /\ RowLabel(0) = PadStart(FormatCurrency(format, yMaxUsed, 1), w)
                 /\ RowLabel(height) = PadStart(FormatCurrency(format, BaselineTick, 1), w)
                 /\ BaselineTick = 0 <=> yMaxUsed < 40 * height
                 /\ w >= Len(FormatCurrency(format, yMaxUsed, 1))
            ELSE \A r \in 0..height : RowLabel(r) = <<>>

C16_Witness ==
    /\ pc = "returned"
    /\ renderer = "createLineGraph"
    /\ canvas # <<>>
    /\ height = 1
    /\ yMaxUsed = 60
    /\ format = "default"
    /\ RowLabel(1) = <<"$", "2", "0">>
    /\ RowLabel(0) = <<"$", "6", "0">>

\* What bar i (from 0) writes: its height, its label, the label's first
\* column and row, whether the label is written, and the character the bar
\* writes into the cell xy = <<x, y>> ("" when it writes none)
BarRows(i) == Round(data[i + 1] * height, yMaxUsed)
BarLabel(i) == FormatCurrency(format, data[i + 1], 1)
BarLabelX(i) == SlotStart(i) + ((SlotBarWidth - Len(BarLabel(i))) \div 2)
BarLabelY(i) == height - BarRows(i)
BarLabelWritten(i) ==
    /\ BarRows(i) < height - 1
    /\ BarLabelY(i) <= height
    /\ BarLabelX(i) >= 0
    /\ BarLabelX(i) + Len(BarLabel(i)) <= width
BarWrites(i, xy) ==
    IF /\ xy[1] >= SlotStart(i)
       /\ xy[1] < SlotStart(i) + SlotBarWidth
       /\ xy[2] > height - BarRows(i)
    THEN BLOCK
    ELSE IF /\ BarLabelWritten(i)
            /\ xy[2] = BarLabelY(i)
            /\ xy[1] >= BarLabelX(i)
            /\ xy[1] < BarLabelX(i) + Len(BarLabel(i))
    THEN BarLabel(i)[xy[1] - BarLabelX(i) + 1]
    ELSE ""

\* C17 (as stated): in createBarGraph a later bar or its label never changes
\* a cell written for an earlier bar: in the final canvas every bar keeps
\* all of its blocks and every label written is present in full.
C17_EarlierBarsKept ==
    (pc = "returned" /\ renderer = "createBarGraph" /\ Len(data) >= 1) =>
        \A i \in 0..(Len(data) - 1) :
            \A xy \in (0..(width - 1)) \X (0..height) :
                BarWrites(i, xy) # "" => canvas[xy[2] + 1][xy[1] + 1] = BarWrites(i, xy)

\* C17 (amended): in createBarGraph the bars are drawn in index order, each
\* bar's blocks and then its label, and a later write replaces an earlier
\* one: in the final canvas a cell holds what the last bar that wrote it
\* put there, and a space when no bar wrote it.  The last bar keeps all of
\* its blocks and its label; an earlier bar loses the cells that the blocks
\* or the label of a later bar cover.
C17_LastWriteKept ==
    (pc = "returned" /\ renderer = "createBarGraph" /\ Len(data) >= 1) =>
        \A xy \in (0..(width - 1)) \X (0..height) :
            LET writers == {i \in 0..(Len(data) - 1) : BarWrites(i, xy) # ""}
                last == CHOOSE i \in writers : \A j \in writers : j <= i
            IN  canvas[xy[2] + 1][xy[1] + 1] =
                    (IF writers = {} THEN SPACE ELSE BarWrites(last, xy))

C17_Witness ==
    /\ pc = "returned"
    /\ renderer = "createBarGraph"
    /\ data = <<45, 7>>
    /\ width = 6
    /\ height = 3
    /\ format = "padStart"
    /\ BarWrites(0, <<2, 3>>) = BLOCK
    /\ BarWrites(1, <<2, 3>>) = SPACE
    /\ canvas[4][3] = SPACE
    /\ canvas[3][3] = BLOCK

====
